---- MODULE Spec2Model ----
(***************************************************************************)
(* Model of the utility classes of the Mamba Kick game:                    *)
(*   - ResourceManager (processLoadingQueue / executeLoadTask), run on a   *)
(*     JavaScript event loop (microtask queue, timer macrotasks);          *)
(*   - LRUCache and PriorityQueue;                                         *)
(*   - ErrorHandler (retry counter and circuit breaker);                   *)
(*   - VersionManager.                                                     *)
(* Each subsystem has its own specification; the variables of the other    *)
(* subsystems stay at their initial value.                                 *)
(***************************************************************************)
EXTENDS Integers, Sequences, FiniteSets, TLC

(***************************************************************************)
(* Bounds of the model                                                     *)
(***************************************************************************)
\* longest list of load tasks handed to the loading queue
MaxTasks == 4
\* largest maxSize an LRUCache is constructed with
MaxCacheSize == 2
\* number of cache hits and insertions that are followed
MaxUses == 5
\* number of handleError calls that are followed
MaxErrors == 6
\* number of handleError calls awaiting their fallback at the same time
MaxInFlight == 2
\* number of times the clock is advanced
MaxTicks == 2
\* error callbacks registered with onError
MaxCallbacks == 2
\* game time up to which frames of the aiming scene are run, in ms
MaxAimTime == 1000
\* number of fireProjectile calls of the aiming scene
MaxAimShots == 2
\* game time up to which frames of the bouncing scene are run, in ms
MaxSceneTime == 1000
\* number of fireProjectile calls of the bouncing scene
MaxShots == 1
\* bounces of one projectile of the bouncing scene
MaxCollisions == 5
\* projectiles fired where the projectiles are followed to their end
MaxProjectiles == 1
\* calls made to the MemoryOptimizer after its construction
MaxPoolCalls == 3

(***************************************************************************)
(* Program constants                                                       *)
(***************************************************************************)
\* enum Priority
LOW == 1
MEDIUM == 2
HIGH == 3
CRITICAL == 4

\* ResourceManager.maxConcurrentLoads
maxConcurrentLoads == 3
\* new LRUCache<string, any>(50)
ResourceCacheSize == 50

\* ErrorHandler.maxRetryAttempts and maxLogEntries
maxRetryAttempts == 3
maxLogEntries == 1000
\* CircuitBreaker.threshold and CircuitBreaker.timeout (ms)
threshold == 5
timeout == 60000

\* aiming SimpleShooterScene: fireRate, rotationSpeed (degrees per second),
\* the delay of the firing timer (ms) and the angles
fireRate == 200
rotationSpeed == 100
firingDelay == 500
defaultAngle == 90
minRotation == 90
maxRotation == 270

\* Obstacle.rows and Obstacle.columns
rows == 4
columns == 3
\* bouncing SimpleShooterScene: spacebarCooldown (ms), orbitSpeed (degrees
\* per second), the speeds of fireProjectile, the timeouts of update and
\* validateGameState (ms), the delay of handleWin's reset (ms), the duration
\* of the fade-out tween (ms), the speed under which a projectile fades, the
\* bounces after which it fades, and the factors of the velocity decay and
\* of the bounce in hundredths (0.99 and 0.82)
spacebarCooldown == 250
orbitSpeed == 120
minSpeed == 50
maxSpeed == 1500
strengthTimeout == 5000
directionTimeout == 10000
winDelay == 3000
fadeDuration == 500
stopSpeed == 20
maxBounces == 4
dragFactor == 99
velocityReductionFactor == 82

\* ObjectPool: the default of the constructor's maxSize, and the default of
\* createObjectPool's initialSize
PoolMaxSize == 1000
DefaultInitialSize == 100

\* resource ids of the load tasks
grass_atlas_base == 1
grass_shader == 2
performance_monitor == 3
\* a further LoadTask (interface LoadTask): lowest priority, no dependency,
\* loader settled by a timer
background_asset == 4

\* The three tasks built by preloadCriticalAssets.  loader is "immediate"
\* when the loader's promise is settled inside the promise executor
\* (preloadGrassAtlas, initializePerformanceMonitoring) and "timer" when it
\* is resolved from a setTimeout callback (preloadShaderPrograms).
AtlasTask ==
  [id |-> grass_atlas_base, priority |-> CRITICAL, loader |-> "immediate", dependencies |-> {}]
ShaderTask ==
  [id |-> grass_shader, priority |-> HIGH, loader |-> "timer", dependencies |-> {grass_atlas_base}]
MonitorTask ==
  [id |-> performance_monitor, priority |-> MEDIUM, loader |-> "immediate", dependencies |-> {}]
BackgroundTask ==
  [id |-> background_asset, priority |-> LOW, loader |-> "timer", dependencies |-> {}]

criticalAssets == <<AtlasTask, ShaderTask, MonitorTask>>

LoadTask == {AtlasTask, ShaderTask, MonitorTask, BackgroundTask}

\* the lists of tasks the loading queue is exercised with; criticalAssets is
\* the one the program builds
TaskLists == UNION {[1..n -> LoadTask] : n \in 1..MaxTasks}

VARIABLES
  \* ---- ResourceManager ----
  assets,           \* the LoadTask list of preloadCriticalAssets (<<>> before the call)
  items,            \* PriorityQueue.items: indices into assets
  activeLoads,
  loadedResources,  \* keys of the loadedResources map
  loadPromises,     \* processLoadingQueue's local array: indices into assets
  promise,          \* state of executeLoadTask's promise per task:
                    \* "none" | "pending" | "fulfilled" | "rejected"
  pc,               \* position of processLoadingQueue
  task,             \* processLoadingQueue's local `task` (0: none)
  raceResult,       \* outcome of the awaited Promise.race / Promise.all
  microtasks,       \* the event loop's microtask queue
  timers,           \* tasks whose setTimeout callback is pending
  \* ---- LRUCache ----
  cache,            \* Map<K,V> as a function
  accessOrder,
  maxSize,
  \* ---- history of the LRUCache calls (not program state) ----
  clock,            \* number of successful get and set calls so far
  lastUsed,         \* per key: clock of its most recent successful get or set
  lastOp,           \* the call made last; had: the key was cached before
                    \* the call, size: the number of entries before the call
  \* ---- ErrorHandler ----
  errorLog,         \* errorLog.length
  retryAttempts,    \* Map retryKey -> attempts (0: no entry)
  circuitBreakers,  \* Map component -> CircuitBreaker (state "none": no entry)
  now,              \* Date.now()
  inflight,         \* handleError calls suspended at `await executeFallbackStrategy`
  errorCallbacks,   \* Map severity -> callbacks; a callback is TRUE when it throws
  \* ---- history of the ErrorHandler calls (not program state) ----
  calls,            \* number of handleError calls so far
  ticks,            \* number of clock advances so far
  lastCall,         \* what the handleError call made last did before its await
  executions,       \* per retryKey: strategy executions started since its last success
  failures,         \* per component: fallbacks that have failed
  outcome,          \* how the handleError promise settled last:
                    \* "none" | "null" | "result" | "rejected"
  \* ---- VersionManager ----
  versions,         \* Map id -> GameVersion (registered: the id has an entry)
  currentVersion,
  \* ---- history of the VersionManager calls (not program state) ----
  vmOp,             \* the call made last and what it returned
  \* ---- aiming SimpleShooterScene ----
  aimingState,
  currentRotation,
  rotationDirection,
  lockedDirection,
  lastFired,
  firingTimer,      \* the pending delayedCall: <<elapsed>>, <<>> when there is none
  fireKeyDown,      \* fireKey.isDown
  visibleParts,     \* the aiming components that are visible
  aimProjectiles,   \* children of the projectile group, in order: angle is the
                    \* angle of the shot, off: more than 20 px outside the camera
  gameTime,         \* the `time` of the current frame
  frameDelta,       \* the `delta` of the current frame
  framePhase,       \* "input": between frames, "callbacks": the frame's clock and
                    \* physics have run, its timer callbacks and update have not
  \* ---- history of the aiming scene (not program state) ----
  shotTimes,        \* gameTime of every fireProjectile call
  rotationAtLock,   \* currentRotation when SPACE locked the direction
  lastKey,          \* aimingState before the SPACE press handled last
  \* ---- bouncing SimpleShooterScene with its Obstacle and its history ----
  scene,
  \* ---- MemoryOptimizer ----
  objectPools,      \* Map name -> ObjectPool; pool is pool.length (the pooled
                    \* objects are interchangeable)
  \* ---- history of the MemoryOptimizer calls (not program state) ----
  poolCalls         \* number of calls so far

rmVars == <<assets, items, activeLoads, loadedResources, loadPromises, promise,
            pc, task, raceResult, microtasks, timers>>
lruVars == <<cache, accessOrder, maxSize>>
lruHist == <<clock, lastUsed, lastOp>>
ehVars == <<errorLog, retryAttempts, circuitBreakers, now, inflight, errorCallbacks>>
ehHist == <<calls, ticks, lastCall, executions, failures, outcome>>
vmVars == <<versions, currentVersion, vmOp>>
aimVars == <<aimingState, currentRotation, rotationDirection, lockedDirection,
             lastFired, firingTimer, fireKeyDown, visibleParts, aimProjectiles,
             gameTime, frameDelta, framePhase>>
aimHist == <<shotTimes, rotationAtLock, lastKey>>
sceneVars == <<aimVars, aimHist, scene>>
poolVars == <<objectPools, poolCalls>>

\* keys and values used with the cache
Keys == 1..(MaxCacheSize + 1)
Values == {"a", "b"}

(***************************************************************************)
(* Helpers on sequences                                                    *)
(***************************************************************************)
Range(s) == {s[i] : i \in DOMAIN s}

FilterOut(s, k) == SelectSeq(s, LAMBDA x : x # k)

Restrict(f, S) == [x \in S |-> f[x]]

(***************************************************************************)
(* class LRUCache<K, V>: a cache is the pair (cache, accessOrder); the     *)
(* operators return the pair after the call.                               *)
(***************************************************************************)
LRUInit == [cache |-> <<>>, accessOrder |-> <<>>]

updateAccessOrder(c, key) ==
  [c EXCEPT !.accessOrder = Append(FilterOut(c.accessOrder, key), key)]

evictLRU(c) ==
  IF Len(c.accessOrder) > 0
  THEN LET lruKey == Head(c.accessOrder)
       IN [cache |-> Restrict(c.cache, DOMAIN c.cache \ {lruKey}),
           accessOrder |-> Tail(c.accessOrder)]
  ELSE c

\* Map.set
MapSet(m, key, value) == [k \in DOMAIN m \cup {key} |-> IF k = key THEN value ELSE m[k]]

\* fullness test that is off by one
CacheFull_OffByOne(c, max) == Cardinality(DOMAIN c.cache) > max

CacheFull(c, max) == Cardinality(DOMAIN c.cache) >= max

LRUset(c, max, key, value) ==
  IF key \in DOMAIN c.cache
  THEN updateAccessOrder([c EXCEPT !.cache = MapSet(c.cache, key, value)], key)
  ELSE LET e == IF CacheFull(c, max) THEN evictLRU(c) ELSE c
       IN [cache |-> MapSet(e.cache, key, value),
           accessOrder |-> Append(e.accessOrder, key)]

\* get that does not refresh the access order
LRUget_NoRefresh(c, key) == c

\* the cache after get(key); the value returned is LRUgetResult
LRUget(c, key) ==
  IF key \in DOMAIN c.cache THEN updateAccessOrder(c, key) ELSE c

LRUgetResult(c, key) ==
  IF key \in DOMAIN c.cache THEN c.cache[key] ELSE 0

LRUdelete(c, key) ==
  IF key \in DOMAIN c.cache
  THEN [cache |-> Restrict(c.cache, DOMAIN c.cache \ {key}),
        accessOrder |-> FilterOut(c.accessOrder, key)]
  ELSE c

LRUclear(c) == LRUInit

(***************************************************************************)
(* class PriorityQueue<T>: items holds indices into assets                 *)
(***************************************************************************)
Prio(list) == [i \in DOMAIN list |-> list[i].priority]

\* Array.prototype.sort is stable: insert x behind every element that does
\* not compare after it under (a, b) => b.priority - a.priority
RECURSIVE InsertSorted(_, _, _)
InsertSorted(prio, s, x) ==
  IF s = <<>> THEN <<x>>
  ELSE IF prio[Head(s)] >= prio[x]
       THEN <<Head(s)>> \o InsertSorted(prio, Tail(s), x)
       ELSE <<x>> \o s

RECURSIVE SortByPriority(_, _)
SortByPriority(prio, s) ==
  IF s = <<>> THEN <<>>
  ELSE InsertSorted(prio, SortByPriority(prio, SubSeq(s, 1, Len(s) - 1)), s[Len(s)])

\* enqueue that pushes without sorting
enqueue_NoSort(prio, q, x) == Append(q, x)

\* enqueue: push, then sort (higher priority first)
enqueue(prio, q, x) == SortByPriority(prio, Append(q, x))

\* dequeue: items.shift()
dequeueItem(q) == Head(q)
dequeueRest(q) == Tail(q)

RECURSIVE EnqueueAll(_, _, _)
EnqueueAll(prio, q, n) ==
  IF n = 0 THEN q ELSE enqueue(prio, EnqueueAll(prio, q, n - 1), n)

(***************************************************************************)
(* ResourceManager on the event loop.  processLoadingQueue is a coroutine  *)
(* whose position is pc; it runs synchronously from one await to the next. *)
(* A microtask or a timer callback runs only when no code is running, and  *)
(* a timer callback only when the microtask queue is empty.                *)
(***************************************************************************)
StackEmpty == pc \in {"idle", "racing", "all", "done", "failed"}

Settled(i) == promise[i] \in {"fulfilled", "rejected"}

\* Promise.race(loadPromises) at the time of the call: the first settled
\* promise of the array decides; "none" while all are pending (an empty
\* array never settles)
RaceOutcome(ps, pr) ==
  LET settled == SelectSeq(ps, LAMBDA i : pr[i] \in {"fulfilled", "rejected"})
  IN IF settled = <<>> THEN "none" ELSE pr[Head(settled)]

\* Promise.all(loadPromises)
AllOutcome(ps, pr) ==
  IF \E i \in Range(ps) : pr[i] = "rejected" THEN "rejected"
  ELSE IF \A i \in Range(ps) : pr[i] = "fulfilled" THEN "fulfilled"
  ELSE "none"

AwaitOutcome(at, ps, pr) ==
  IF at = "racing" THEN RaceOutcome(ps, pr) ELSE AllOutcome(ps, pr)

ResumeJob == [kind |-> "resume", task |-> 0, ok |-> TRUE]
LoadJob(i, ok) == [kind |-> "load", task |-> i, ok |-> ok]

\* dependency check that accepts every task
areDependenciesMet_Always(dependencies) == TRUE

areDependenciesMet(dependencies) == dependencies \subseteq loadedResources

\* concurrency test that is off by one
UnderConcurrencyLimit_OffByOne == activeLoads <= maxConcurrentLoads

UnderConcurrencyLimit == activeLoads < maxConcurrentLoads

\* preloadCriticalAssets, lines 45-85: enqueue every task, then enter
\* processLoadingQueue
PreloadCriticalAssets(list) ==
  /\ pc = "idle"
  /\ assets' = list
  /\ items' = EnqueueAll(Prio(list), items, Len(list))
  /\ promise' = [i \in DOMAIN list |-> "none"]
  /\ loadPromises' = <<>>
  /\ pc' = "outer"
  /\ UNCHANGED <<activeLoads, loadedResources, task, raceResult, microtasks, timers,
                 lruVars, lruHist, ehVars, ehHist, vmVars, sceneVars, poolVars>>

\* line 104, loop condition true
EnterLoop ==
  /\ pc = "outer"
  /\ (items # <<>> \/ activeLoads > 0)
  /\ pc' = "inner"
  /\ UNCHANGED <<assets, items, activeLoads, loadedResources, loadPromises, promise,
                 task, raceResult, microtasks, timers, lruVars, lruHist, ehVars, ehHist, vmVars, sceneVars, poolVars>>

\* line 104 false, line 127: await Promise.all(loadPromises)
ExitLoop ==
  /\ pc = "outer"
  /\ ~(items # <<>> \/ activeLoads > 0)
  /\ pc' = "all"
  /\ raceResult' = AllOutcome(loadPromises, promise)
  /\ microtasks' = IF raceResult' = "none" THEN microtasks
                   ELSE Append(microtasks, ResumeJob)
  /\ UNCHANGED <<assets, items, activeLoads, loadedResources, loadPromises, promise,
                 task, timers, lruVars, lruHist, ehVars, ehHist, vmVars, sceneVars, poolVars>>

\* lines 106-107: inner loop condition true, dequeue
Dequeue ==
  /\ pc = "inner"
  /\ UnderConcurrencyLimit /\ items # <<>>
  /\ task' = dequeueItem(items)
  /\ items' = dequeueRest(items)
  /\ pc' = "check"
  /\ UNCHANGED <<assets, activeLoads, loadedResources, loadPromises, promise,
                 raceResult, microtasks, timers, lruVars, lruHist, ehVars, ehHist, vmVars, sceneVars, poolVars>>

\* line 106 false
InnerExit ==
  /\ pc = "inner"
  /\ ~(UnderConcurrencyLimit /\ items # <<>>)
  /\ pc' = "wait"
  /\ UNCHANGED <<assets, items, activeLoads, loadedResources, loadPromises, promise,
                 task, raceResult, microtasks, timers, lruVars, lruHist, ehVars, ehHist, vmVars, sceneVars, poolVars>>

\* lines 110-112 and executeLoadTask up to `await task.loader()` (134-140).
\* An immediate loader has settled its promise when it returns (ok: resolved,
\* not ok: rejected), so the continuation of executeLoadTask is queued as a
\* microtask; a timer loader leaves a timer behind.
StartLoad(ok) ==
  /\ pc = "check"
  /\ areDependenciesMet(assets[task].dependencies)
  /\ activeLoads' = activeLoads + 1
  /\ promise' = [promise EXCEPT ![task] = "pending"]
  /\ loadPromises' = Append(loadPromises, task)
  /\ IF assets[task].loader = "immediate"
     THEN /\ microtasks' = Append(microtasks, LoadJob(task, ok))
          /\ timers' = timers
     ELSE /\ ok
          /\ timers' = timers \cup {task}
          /\ microtasks' = microtasks
  /\ pc' = "inner"
  /\ UNCHANGED <<assets, items, loadedResources, task, raceResult, lruVars, lruHist, ehVars, ehHist, vmVars, sceneVars, poolVars>>

\* lines 113-116: re-queue and break
Requeue ==
  /\ pc = "check"
  /\ ~areDependenciesMet(assets[task].dependencies)
  /\ items' = enqueue(Prio(assets), items, task)
  /\ pc' = "wait"
  /\ UNCHANGED <<assets, activeLoads, loadedResources, loadPromises, promise,
                 task, raceResult, microtasks, timers, lruVars, lruHist, ehVars, ehHist, vmVars, sceneVars, poolVars>>

\* lines 121-122: await Promise.race(loadPromises)
AwaitRace ==
  /\ pc = "wait"
  /\ activeLoads > 0
  /\ pc' = "racing"
  /\ raceResult' = RaceOutcome(loadPromises, promise)
  /\ microtasks' = IF raceResult' = "none" THEN microtasks
                   ELSE Append(microtasks, ResumeJob)
  /\ UNCHANGED <<assets, items, activeLoads, loadedResources, loadPromises, promise,
                 task, timers, lruVars, lruHist, ehVars, ehHist, vmVars, sceneVars, poolVars>>

\* line 121 false: next iteration without awaiting
SkipWait ==
  /\ pc = "wait"
  /\ ~(activeLoads > 0)
  /\ pc' = "outer"
  /\ UNCHANGED <<assets, items, activeLoads, loadedResources, loadPromises, promise,
                 task, raceResult, microtasks, timers, lruVars, lruHist, ehVars, ehHist, vmVars, sceneVars, poolVars>>

\* the setTimeout callback of preloadShaderPrograms (lines 259-262) resolves
\* the loader's promise, which queues the continuation of executeLoadTask
FireTimer(i) ==
  /\ StackEmpty
  /\ microtasks = <<>>
  /\ i \in timers
  /\ timers' = timers \ {i}
  /\ microtasks' = Append(microtasks, LoadJob(i, TRUE))
  /\ UNCHANGED <<assets, items, activeLoads, loadedResources, loadPromises, promise,
                 pc, task, raceResult, lruVars, lruHist, ehVars, ehHist, vmVars, sceneVars, poolVars>>

\* executeLoadTask after the await (lines 142-165): cache and record the
\* resource, or rethrow; finally activeLoads--.  Settling the task's promise
\* settles a pending Promise.race / Promise.all that waits on it.
FinishLoad ==
  /\ StackEmpty
  /\ microtasks # <<>>
  /\ Head(microtasks).kind = "load"
  /\ LET job == Head(microtasks)
         i == job.task
         c == LRUset([cache |-> cache, accessOrder |-> accessOrder], maxSize,
                     assets[i].id, assets[i].id)
         pr == [promise EXCEPT ![i] = IF job.ok THEN "fulfilled" ELSE "rejected"]
         waiting == pc \in {"racing", "all"} /\ raceResult = "none"
         out == IF waiting THEN AwaitOutcome(pc, loadPromises, pr) ELSE raceResult
     IN /\ promise' = pr
        /\ activeLoads' = activeLoads - 1
        /\ IF job.ok
           THEN /\ cache' = c.cache
                /\ accessOrder' = c.accessOrder
                /\ loadedResources' = loadedResources \cup {assets[i].id}
           ELSE UNCHANGED <<cache, accessOrder, loadedResources>>
        /\ raceResult' = out
        /\ microtasks' = IF waiting /\ out # "none"
                         THEN Append(Tail(microtasks), ResumeJob)
                         ELSE Tail(microtasks)
  /\ UNCHANGED <<assets, items, loadPromises, pc, task, timers, maxSize, lruHist,
                 ehVars, ehHist, vmVars, sceneVars, poolVars>>

\* processLoadingQueue continues after its await: a fulfilled race goes back
\* to line 104, a fulfilled Promise.all returns (preloadCriticalAssets
\* resolves), a rejection is thrown to the caller (lines 92-95)
ResumeQueue ==
  /\ StackEmpty
  /\ microtasks # <<>>
  /\ Head(microtasks).kind = "resume"
  /\ microtasks' = Tail(microtasks)
  /\ pc' = IF raceResult = "rejected" THEN "failed"
           ELSE IF pc = "racing" THEN "outer" ELSE "done"
  /\ raceResult' = "none"
  /\ UNCHANGED <<assets, items, activeLoads, loadedResources, loadPromises, promise,
                 task, timers, lruVars, lruHist, ehVars, ehHist, vmVars, sceneVars, poolVars>>

RMInit ==
  /\ assets = <<>>
  /\ items = <<>>
  /\ activeLoads = 0
  /\ loadedResources = {}
  /\ loadPromises = <<>>
  /\ promise = <<>>
  /\ pc = "idle"
  /\ task = 0
  /\ raceResult = "none"
  /\ microtasks = <<>>
  /\ timers = {}

LRUInitState(max) ==
  /\ cache = LRUInit.cache
  /\ accessOrder = LRUInit.accessOrder
  /\ maxSize = max

LRUHistInit ==
  /\ clock = 0
  /\ lastUsed = [k \in Keys |-> 0]
  /\ lastOp = [op |-> "none", key |-> 0, value |-> "a", had |-> FALSE, size |-> 0]

(***************************************************************************)
(* class ErrorHandler                                                      *)
(***************************************************************************)
Components == {"scene_preload", "global"}
\* the strategy of initializeFallbackStrategies that the scene uses; every call
\* passes the same context, so the retryKey is determined by the key
RegisteredKeys == {"atlas_texture_load"}
\* fallbackKey arguments: none, a registered key, a key without strategy
FallbackKeys == RegisteredKeys \cup {"none", "unregistered"}
\* severity arguments: the one the scene passes and the one that also runs
\* handleCriticalError
Severities == {"HIGH", "CRITICAL"}

NoBreaker == [state |-> "none", failureCount |-> 0, lastFailure |-> 0]

\* threshold test that is off by one
ThresholdReached_OffByOne(count) == count > threshold

ThresholdReached(count) == count >= threshold

\* timeout test that is off by one
TimedOut_OffByOne(breaker, t) == t - breaker.lastFailure >= timeout

TimedOut(breaker, t) == t - breaker.lastFailure > timeout

\* isCircuitBreakerOpen: the breaker after the call (an open breaker whose
\* timeout has passed becomes half-open) ...
breakerAfterCheck(breaker, t) ==
  IF breaker.state = "open" /\ TimedOut(breaker, t)
  THEN [breaker EXCEPT !.state = "half-open"]
  ELSE breaker

\* ... and the value returned
isCircuitBreakerOpen(breaker, t) ==
  breakerAfterCheck(breaker, t).state = "open"

\* updateCircuitBreaker(component, success) on the component's breaker
updateCircuitBreaker(breaker, success, t) ==
  LET b == IF breaker.state = "none"
           THEN [state |-> "closed", failureCount |-> 0, lastFailure |-> 0]
           ELSE breaker
  IN IF success
     THEN [b EXCEPT !.failureCount = 0, !.state = "closed"]
     ELSE [state |-> IF ThresholdReached(b.failureCount + 1) THEN "open" ELSE b.state,
           failureCount |-> b.failureCount + 1,
           lastFailure |-> t]

\* logError: push, then keep the last maxLogEntries entries
logError(len) == IF len + 1 > maxLogEntries THEN maxLogEntries ELSE len + 1

\* the sequence without its i-th element
RemoveAt(seq, i) == SubSeq(seq, 1, i - 1) \o SubSeq(seq, i + 1, Len(seq))

\* number of callbacks in the list that are invoked when an exception thrown
\* by a callback leaves the loop: the callbacks up to the first one that throws
RanUntilThrow(callbacks) ==
  IF \E i \in DOMAIN callbacks : callbacks[i]
  THEN CHOOSE i \in DOMAIN callbacks :
         callbacks[i] /\ \A j \in 1..(i - 1) : ~callbacks[j]
  ELSE Len(callbacks)

\* executeErrorCallbacks without the try/catch around the callback
executeErrorCallbacks_NoCatch(callbacks) ==
  [ran |-> RanUntilThrow(callbacks),
   threw |-> \E i \in DOMAIN callbacks : callbacks[i]]

\* executeErrorCallbacks on the list of the severity: every callback is
\* invoked inside its own try/catch; ran: callbacks invoked, threw: an
\* exception leaves the method
executeErrorCallbacks(callbacks) ==
  [ran |-> Len(callbacks), threw |-> FALSE]

\* retry counter test that never gives up
RetriesExhausted_Never(attempts) == FALSE

RetriesExhausted(attempts) == attempts >= maxRetryAttempts

\* handleError up to its first await (lines 129-156) and, inside it,
\* executeFallbackStrategy up to `await strategy.execute(context)` (176-191).
\* A call that reaches the await is kept in inflight with the currentAttempts
\* it read; phase "rejected" when executeFallbackStrategy threw before
\* executing the strategy.  The severity selects the callback list and
\* handleCriticalError, which writes to the console.  An exception that leaves
\* executeErrorCallbacks leaves handleError too: its promise rejects.
HandleError(severity, component, fallbackKey) ==
  /\ calls < MaxErrors
  /\ LET breaker == breakerAfterCheck(circuitBreakers[component], now)
         open == isCircuitBreakerOpen(circuitBreakers[component], now)
         cb == IF open THEN [ran |-> 0, threw |-> FALSE]
               ELSE executeErrorCallbacks(errorCallbacks[severity])
         suspended == ~open /\ ~cb.threw /\ fallbackKey # "none"
         currentAttempts == IF fallbackKey \in RegisteredKeys
                            THEN retryAttempts[fallbackKey] ELSE 0
         runs == /\ suspended
                 /\ fallbackKey \in RegisteredKeys
                 /\ ~RetriesExhausted(currentAttempts)
         returned == IF cb.threw THEN "rejected"
                     ELSE IF suspended THEN "pending" ELSE "null"
     IN /\ suspended => Len(inflight) < MaxInFlight
        /\ calls' = calls + 1
        /\ errorLog' = logError(errorLog)
        /\ circuitBreakers' = [circuitBreakers EXCEPT ![component] = breaker]
        /\ retryAttempts' = IF runs
                            THEN [retryAttempts EXCEPT ![fallbackKey] = currentAttempts + 1]
                            ELSE retryAttempts
        /\ executions' = IF runs
                         THEN [executions EXCEPT ![fallbackKey] = @ + 1]
                         ELSE executions
        /\ inflight' = IF suspended
                       THEN Append(inflight, [component |-> component,
                                               key |-> fallbackKey,
                                               currentAttempts |-> currentAttempts,
                                               phase |-> IF runs THEN "executing"
                                                         ELSE "rejected"])
                       ELSE inflight
        /\ lastCall' = [component |-> component,
                        returned |-> returned,
                        callbacks |-> ~open,
                        ran |-> cb.ran,
                        registered |-> Len(errorCallbacks[severity]),
                        key |-> fallbackKey,
                        fallback |-> runs]
        /\ outcome' = IF suspended THEN outcome ELSE returned
  /\ UNCHANGED <<now, ticks, failures, errorCallbacks, rmVars, lruVars, lruHist, vmVars, sceneVars, poolVars>>

\* onError(severity, callback): the callback is appended to the list of the
\* severity
OnError(severity, throws) ==
  /\ Len(errorCallbacks["HIGH"]) + Len(errorCallbacks["CRITICAL"]) < MaxCallbacks
  /\ errorCallbacks' = [errorCallbacks EXCEPT ![severity] = Append(@, throws)]
  /\ UNCHANGED <<errorLog, retryAttempts, circuitBreakers, now, inflight, ehHist,
                 rmVars, lruVars, lruHist, vmVars, sceneVars, poolVars>>

\* strategy.execute resolved: executeFallbackStrategy deletes the retry entry
\* (line 194) and handleError returns the result (lines 157-158)
FallbackSucceeds(id) ==
  /\ id \in DOMAIN inflight
  /\ inflight[id].phase = "executing"
  /\ retryAttempts' = [retryAttempts EXCEPT ![inflight[id].key] = 0]
  /\ executions' = [executions EXCEPT ![inflight[id].key] = 0]
  /\ inflight' = RemoveAt(inflight, id)
  /\ outcome' = "result"
  /\ UNCHANGED <<errorLog, circuitBreakers, now, calls, ticks, lastCall, failures,
                 errorCallbacks, rmVars, lruVars, lruHist, vmVars, sceneVars, poolVars>>

\* strategy.execute rejected: executeFallbackStrategy deletes the retry entry
\* when this was the last allowed attempt (lines 197-204); handleError's catch
\* records the failure in the breaker and returns null (lines 159-170)
FallbackFails(id) ==
  /\ id \in DOMAIN inflight
  /\ inflight[id].phase = "executing"
  /\ retryAttempts' = IF RetriesExhausted(inflight[id].currentAttempts + 1)
                      THEN [retryAttempts EXCEPT ![inflight[id].key] = 0]
                      ELSE retryAttempts
  /\ circuitBreakers' = [circuitBreakers EXCEPT ![inflight[id].component] =
                           updateCircuitBreaker(@, FALSE, now)]
  /\ failures' = [failures EXCEPT ![inflight[id].component] = @ + 1]
  /\ inflight' = RemoveAt(inflight, id)
  /\ outcome' = "null"
  /\ UNCHANGED <<errorLog, now, calls, ticks, lastCall, executions,
                 errorCallbacks, rmVars, lruVars, lruHist, vmVars, sceneVars, poolVars>>

\* executeFallbackStrategy threw 'not found' or 'Max retry attempts exceeded'
\* (lines 178-187): handleError's catch records the failure and returns null
FallbackRejected(id) ==
  /\ id \in DOMAIN inflight
  /\ inflight[id].phase = "rejected"
  /\ circuitBreakers' = [circuitBreakers EXCEPT ![inflight[id].component] =
                           updateCircuitBreaker(@, FALSE, now)]
  /\ failures' = [failures EXCEPT ![inflight[id].component] = @ + 1]
  /\ inflight' = RemoveAt(inflight, id)
  /\ outcome' = "null"
  /\ UNCHANGED <<errorLog, retryAttempts, now, calls, ticks, lastCall, executions,
                 errorCallbacks, rmVars, lruVars, lruHist, vmVars, sceneVars, poolVars>>

\* time passes (Date.now() grows)
Tick(d) ==
  /\ ticks < MaxTicks
  /\ ticks' = ticks + 1
  /\ now' = now + d
  /\ UNCHANGED <<errorLog, retryAttempts, circuitBreakers, inflight, calls, lastCall,
                 executions, failures, outcome, errorCallbacks,
                 rmVars, lruVars, lruHist, vmVars, sceneVars, poolVars>>

TickSteps == {1, timeout}

EHInit ==
  /\ errorLog = 0
  /\ retryAttempts = [k \in RegisteredKeys |-> 0]
  /\ circuitBreakers = [c \in Components |-> NoBreaker]
  /\ now = 0
  /\ inflight = <<>>
  /\ calls = 0
  /\ ticks = 0
  /\ errorCallbacks = [s \in Severities |-> <<>>]
  /\ lastCall = [component |-> "global", returned |-> "null", callbacks |-> FALSE,
                 ran |-> 0, registered |-> 0, key |-> "none", fallback |-> FALSE]
  /\ outcome = "none"
  /\ executions = [k \in RegisteredKeys |-> 0]
  /\ failures = [c \in Components |-> 0]

(***************************************************************************)
(* class VersionManager                                                    *)
(***************************************************************************)
VersionIds == {"v0.1", "v0.2", "v0.3"}

GameVersion(id, isActive) == [id |-> id, isActive |-> isActive]

hasVersion(m, id) == id \in DOMAIN m

registerVersion(m, version) == MapSet(m, version.id, version)

\* stands for the undefined returned by Map.get for a missing key
Undefined == [id |-> "undefined", isActive |-> FALSE]

\* getCurrentVersion: versions.get(currentVersion)
getCurrentVersion(m, current) ==
  IF current \in DOMAIN m THEN m[current] ELSE Undefined

\* switchVersion that does not test whether the version is registered
switchVersion_NoCheck(m, current, versionId) ==
  [versions |-> [id \in DOMAIN m |->
                   IF id = versionId THEN [m[id] EXCEPT !.isActive = TRUE]
                   ELSE IF id = current THEN [m[id] EXCEPT !.isActive = FALSE]
                   ELSE m[id]],
   currentVersion |-> versionId,
   result |-> TRUE]

\* switchVersion: the map and currentVersion after the call, and its result
switchVersion(m, current, versionId) ==
  IF ~hasVersion(m, versionId)
  THEN [versions |-> m, currentVersion |-> current, result |-> FALSE]
  ELSE LET old == IF current \in DOMAIN m
                  THEN [m EXCEPT ![current].isActive = FALSE]
                  ELSE m
           new == [old EXCEPT ![versionId].isActive = TRUE]
       IN [versions |-> new, currentVersion |-> versionId, result |-> TRUE]

\* a call of the public registerVersion
RegisterVersion(id, isActive) ==
  /\ versions' = registerVersion(versions, GameVersion(id, isActive))
  /\ vmOp' = [op |-> "registerVersion", id |-> id, result |-> TRUE]
  /\ UNCHANGED <<currentVersion, rmVars, lruVars, lruHist, ehVars, ehHist, sceneVars, poolVars>>

\* SimpleShooterScene.create: registers v0.1 as inactive, unconditionally
SceneCreate ==
  /\ versions' = registerVersion(versions, GameVersion("v0.1", FALSE))
  /\ vmOp' = [op |-> "create", id |-> "v0.1", result |-> TRUE]
  /\ UNCHANGED <<currentVersion, rmVars, lruVars, lruHist, ehVars, ehHist, sceneVars, poolVars>>

\* MainScene.registerV03Version (v0.2): registers v0.3 unless it exists
RegisterV03Version ==
  /\ versions' = IF ~hasVersion(versions, "v0.3")
                 THEN registerVersion(versions, GameVersion("v0.3", FALSE))
                 ELSE versions
  /\ vmOp' = [op |-> "registerV03Version", id |-> "v0.3", result |-> TRUE]
  /\ UNCHANGED <<currentVersion, rmVars, lruVars, lruHist, ehVars, ehHist, sceneVars, poolVars>>

\* MainScene.registerV02Version (v0.3): registers v0.2 unless it exists
RegisterV02Version ==
  /\ versions' = IF ~hasVersion(versions, "v0.2")
                 THEN registerVersion(versions, GameVersion("v0.2", TRUE))
                 ELSE versions
  /\ vmOp' = [op |-> "registerV02Version", id |-> "v0.2", result |-> TRUE]
  /\ UNCHANGED <<currentVersion, rmVars, lruVars, lruHist, ehVars, ehHist, sceneVars, poolVars>>

\* DeveloperMenu.addVersion: registers an inactive version unless it exists
AddVersion(id) ==
  /\ versions' = IF ~hasVersion(versions, id)
                 THEN registerVersion(versions, GameVersion(id, FALSE))
                 ELSE versions
  /\ vmOp' = [op |-> "addVersion", id |-> id, result |-> TRUE]
  /\ UNCHANGED <<currentVersion, rmVars, lruVars, lruHist, ehVars, ehHist, sceneVars, poolVars>>

\* DeveloperMenu.switchVersion: VersionManager.switchVersion and its result
SwitchVersion(id) ==
  /\ LET r == switchVersion(versions, currentVersion, id)
     IN /\ versions' = r.versions
        /\ currentVersion' = r.currentVersion
        /\ vmOp' = [op |-> "switchVersion", id |-> id, result |-> r.result]
  /\ UNCHANGED <<rmVars, lruVars, lruHist, ehVars, ehHist, sceneVars, poolVars>>

\* the private constructor registers v0.2 as the active version
VMInit ==
  /\ versions = registerVersion(<<>>, GameVersion("v0.2", TRUE))
  /\ currentVersion = "v0.2"
  /\ vmOp = [op |-> "none", id |-> "v0.2", result |-> TRUE]

(***************************************************************************)
(* class SimpleShooterScene, the aiming scene.  A frame of the engine      *)
(* advances the clock and the physics world, runs the timer callbacks that *)
(* are due and then calls update; key events are handled between frames.   *)
(***************************************************************************)
AimingParts == {"aimingCircle", "aimingArrow", "directionIndicator"}

otherScenes == <<rmVars, lruVars, lruHist, ehVars, ehHist, vmVars, poolVars>>

\* fireProjectile(angleDegrees): a projectile is added to the group
fireProjectile(ps, angleDegrees) ==
  Append(ps, [angle |-> angleDegrees, off |-> FALSE])

\* updateAimingRotation(delta): <<currentRotation, rotationDirection>> after
\* the call
updateAimingRotation(rotation, direction, delta) ==
  LET r == rotation + ((rotationSpeed * delta) \div 1000) * direction
  IN IF r > maxRotation THEN <<maxRotation, -1>>
     ELSE IF r < minRotation THEN <<minRotation, 1>>
     ELSE <<r, direction>>

\* updateAimingComponentPositions: the vertex markers are shown while the
\* arrow is visible and hidden otherwise
updateAimingComponentPositions(visible) ==
  IF "aimingArrow" \in visible
  THEN visible \cup {"vertexMarkers"}
  ELSE visible \ {"vertexMarkers"}

\* resetAimingSystem: the components it hides
resetAimingSystem(visible) == visible \ AimingParts

\* the loop `for (i = 0; i < projectiles.length; i++)` of update over the
\* array getChildren() returns, which is the group's own array: destroy()
\* removes the projectile from it while the loop runs.  i counts from 1.
RECURSIVE RemoveOffScreen(_, _)
RemoveOffScreen(ps, i) ==
  IF i > Len(ps) THEN ps
  ELSE IF ps[i].off THEN RemoveOffScreen(RemoveAt(ps, i), i + 1)
  ELSE RemoveOffScreen(ps, i + 1)

\* the projectiles that physics may have moved: those in S have left the
\* screen by more than 20 px
MoveOff(ps, S) == [i \in DOMAIN ps |-> [ps[i] EXCEPT !.off = @ \/ i \in S]]

\* keydown-SPACE: handleSpacebarPress with activateAimingMode and
\* lockAimingDirection
KeyDown ==
  /\ framePhase = "input"
  /\ ~fireKeyDown
  /\ fireKeyDown' = TRUE
  /\ lastKey' = aimingState
  /\ IF aimingState = "IDLE"
     THEN /\ aimingState' = "AIMING"
          /\ currentRotation' = maxRotation
          /\ rotationDirection' = -1
          /\ visibleParts' = updateAimingComponentPositions(visibleParts \cup AimingParts)
          /\ UNCHANGED <<lockedDirection, firingTimer, rotationAtLock>>
     ELSE IF aimingState = "AIMING"
     THEN /\ aimingState' = "LOCKED"
          /\ lockedDirection' = currentRotation
          /\ rotationAtLock' = currentRotation
          /\ firingTimer' = <<0>>
          /\ UNCHANGED <<currentRotation, rotationDirection, visibleParts>>
     ELSE UNCHANGED <<aimingState, currentRotation, rotationDirection, visibleParts,
                      lockedDirection, firingTimer, rotationAtLock>>
  /\ UNCHANGED <<lastFired, aimProjectiles, gameTime, frameDelta, framePhase,
                 shotTimes, otherScenes, scene>>

\* SPACE is released
KeyUp ==
  /\ framePhase = "input"
  /\ fireKeyDown
  /\ fireKeyDown' = FALSE
  /\ UNCHANGED <<aimingState, currentRotation, rotationDirection, lockedDirection,
                 lastFired, firingTimer, visibleParts, aimProjectiles, gameTime,
                 frameDelta, framePhase, aimHist, otherScenes, scene>>

\* a frame starts: the clock advances by delta and the physics world moves
\* the projectiles, those in S off the screen
StepFrame(delta, S) ==
  /\ framePhase = "input"
  /\ gameTime + delta <= MaxAimTime
  /\ S \subseteq DOMAIN aimProjectiles
  /\ gameTime' = gameTime + delta
  /\ frameDelta' = delta
  /\ firingTimer' = [i \in DOMAIN firingTimer |-> firingTimer[i] + delta]
  /\ aimProjectiles' = MoveOff(aimProjectiles, S)
  /\ framePhase' = "callbacks"
  /\ UNCHANGED <<aimingState, currentRotation, rotationDirection, lockedDirection,
                 lastFired, fireKeyDown, visibleParts, aimHist, otherScenes, scene>>

TimerDue == firingTimer # <<>> /\ firingTimer[1] >= firingDelay

\* the delayedCall of lockAimingDirection is due: fireLockedProjectile
FireLockedProjectile ==
  /\ framePhase = "callbacks"
  /\ TimerDue
  /\ Len(shotTimes) < MaxAimShots
  /\ firingTimer' = <<>>
  /\ aimProjectiles' = fireProjectile(aimProjectiles, lockedDirection)
  /\ shotTimes' = Append(shotTimes, gameTime)
  /\ aimingState' = "IDLE"
  /\ visibleParts' = resetAimingSystem(visibleParts)
  /\ UNCHANGED <<currentRotation, rotationDirection, lockedDirection, lastFired,
                 fireKeyDown, gameTime, frameDelta, framePhase, rotationAtLock,
                 lastKey, otherScenes, scene>>

\* update(time, delta)
Update ==
  /\ framePhase = "callbacks"
  /\ ~TimerDue
  /\ LET rot == IF aimingState = "AIMING"
                THEN updateAimingRotation(currentRotation, rotationDirection, frameDelta)
                ELSE <<currentRotation, rotationDirection>>
         fires == aimingState = "IDLE" /\ fireKeyDown /\ gameTime > lastFired
         fired == IF fires THEN fireProjectile(aimProjectiles, defaultAngle)
                  ELSE aimProjectiles
     IN /\ fires => Len(shotTimes) < MaxAimShots
        /\ currentRotation' = rot[1]
        /\ rotationDirection' = rot[2]
        /\ visibleParts' = IF aimingState # "IDLE"
                           THEN updateAimingComponentPositions(visibleParts)
                           ELSE visibleParts
        /\ lastFired' = IF fires THEN gameTime + fireRate ELSE lastFired
        /\ shotTimes' = IF fires THEN Append(shotTimes, gameTime) ELSE shotTimes
        /\ aimProjectiles' = RemoveOffScreen(fired, 1)
  /\ framePhase' = "input"
  /\ UNCHANGED <<aimingState, lockedDirection, firingTimer, fireKeyDown, gameTime,
                 frameDelta, rotationAtLock, lastKey, otherScenes, scene>>

AimFrameSteps == {100, 250}

AimInit ==
  /\ aimingState = "IDLE"
  /\ currentRotation = 0
  /\ rotationDirection = 1
  /\ lockedDirection = 0
  /\ lastFired = 0
  /\ firingTimer = <<>>
  /\ fireKeyDown = FALSE
  /\ visibleParts = {}
  /\ aimProjectiles = <<>>
  /\ gameTime = 0
  /\ frameDelta = 0
  /\ framePhase = "input"
  /\ shotTimes = <<>>
  /\ rotationAtLock = 0
  /\ lastKey = "IDLE"

(***************************************************************************)
(* class SimpleShooterScene, the bouncing scene, and class Obstacle.  The  *)
(* scene is the record of its fields; a method is an operator from the     *)
(* scene before the call to the scene after it.                            *)
(* Fields of the record that are history, not program state:               *)
(*   op        the handler that ran last                                   *)
(*   shots     number of fireProjectile calls so far                       *)
(*   accepted  SPACE presses that passed the debounce and changed the      *)
(*             game state during the handler that ran last                 *)
(*   resets    resetSystem calls during the handler that ran last          *)
(*   lastAccepted, gap   time of the accepted press made last and its      *)
(*             distance to the accepted press before it (<<>>: none)       *)
(*   presses   accepted presses since the sequence started in IDLE         *)
(*   strengthAtSecond    currentStrength at the second of them             *)
(*   angleAtThird        orbitAngle at the third of them                   *)
(*   shot      direction and strength of the projectile fired last by a    *)
(*             press                                                       *)
(*   faded     projectiles destroyed at the end of their fade-out so far   *)
(* A projectile carries the number of its shot as id.                      *)
(***************************************************************************)
\* the statements of a method run one after the other: Step is applied to
\* the scene that the statements before it have left
Then(sc, Step(_)) == CHOOSE after \in {Step(before) : before \in {sc}} : TRUE

InputStates == {"IDLE", "DIRECTION_SELECTION", "STRENGTH_SELECTION"}

UIParts == {"circleOutline", "orbitingDot", "strengthIndicator", "directionLine"}

\* new Obstacle(...): createBlocks fills the grid
createObstacle == [blocks |-> rows * columns, destroyedBlocks |-> 0]

\* Obstacle.destroyBlock for a block of the obstacle
destroyBlock(obstacle) ==
  [blocks |-> obstacle.blocks - 1, destroyedBlocks |-> obstacle.destroyedBlocks + 1]

\* Obstacle.isCompleted
isCompleted(obstacle) == obstacle.destroyedBlocks >= rows * columns

\* the debounce test of handleSpacebarPress
InCooldown(sc) == sc.now - sc.lastSpacebarPressTime < spacebarCooldown

\* the cooldown test of update, off by one
CooldownOver_OffByOne(sc) == sc.now - sc.lastSpacebarPressTime > spacebarCooldown

\* the cooldown test of update
CooldownOver(sc) == sc.now - sc.lastSpacebarPressTime >= spacebarCooldown

\* resetSystem
resetSystem(sc) ==
  [sc EXCEPT !.gameState = "IDLE",
             !.visible = @ \ UIParts,
             !.lastSpacebarPressTime = 0,
             !.strengthSelectionStartTime = 0,
             !.inputBuffer = FALSE,
             !.resets = @ + 1]

\* speed of a projectile fired with the strength; the strength, a fraction
\* of 1 in the code, is counted in hundredths
InitialSpeed(strength) == minSpeed + (strength * (maxSpeed - minSpeed)) \div 100

\* fireProjectile(strength)
fireStrengthProjectile(sc, strength) ==
  resetSystem([sc EXCEPT !.projectiles =
                           Append(@, [id |-> sc.shots + 1,
                                      speed |-> InitialSpeed(strength),
                                      bounceCount |-> 0,
                                      fading |-> FALSE,
                                      elapsed |-> 0,
                                      off |-> FALSE]),
                         !.shots = @ + 1])

\* lockStrengthAndFire
lockStrengthAndFire(sc) ==
  fireStrengthProjectile([sc EXCEPT !.gameState = "FIRING"], sc.currentStrength)

\* activateDirectionSelection
activateDirectionSelection(sc) ==
  [sc EXCEPT !.gameState = "DIRECTION_SELECTION",
             !.orbitAngle = 0,
             !.orbitDirection = 1,
             !.visible = @ \cup {"circleOutline", "orbitingDot"}]

\* lockDirectionAndStartStrengthSelection: the locked direction vector is the
\* position of the dot on the circle, which the orbit angle determines
lockDirectionAndStartStrengthSelection(sc) ==
  [sc EXCEPT !.lockedDirection = <<sc.orbitAngle>>,
             !.gameState = "STRENGTH_SELECTION",
             !.strengthSelectionStartTime = sc.now,
             !.visible = @ \cup {"strengthIndicator", "directionLine"}]

\* history of an accepted press, taken before its transition
NoteAccepted(sc) ==
  LET n == IF sc.gameState = "IDLE" THEN 1 ELSE sc.presses + 1
  IN [sc EXCEPT !.accepted = @ + 1,
                !.gap = IF sc.lastAccepted = <<>> THEN <<>>
                        ELSE <<sc.now - sc.lastAccepted[1]>>,
                !.lastAccepted = <<sc.now>>,
                !.presses = n,
                !.strengthAtSecond = IF n = 1 THEN <<>>
                                     ELSE IF n = 2 THEN <<sc.currentStrength>> ELSE @,
                !.angleAtThird = IF n = 3 THEN <<sc.orbitAngle>> ELSE <<>>,
                !.shot = IF n = 1 THEN <<>> ELSE @]

\* history of the shot of the third press
NoteShot(before, after) ==
  [after EXCEPT !.shot = <<[direction |-> before.lockedDirection,
                            strength |-> before.currentStrength]>>]

\* handleSpacebarPress
handleSpacebarPress(sc) ==
  IF InCooldown(sc)
  THEN IF sc.gameState \in InputStates
       THEN [sc EXCEPT !.inputBuffer = TRUE]
       ELSE sc
  ELSE LET s1 == [sc EXCEPT !.lastSpacebarPressTime = sc.now,
                            !.inputBuffer = FALSE]
       IN CASE sc.gameState = "IDLE" ->
                 activateDirectionSelection(NoteAccepted(s1))
            [] sc.gameState = "DIRECTION_SELECTION" ->
                 lockDirectionAndStartStrengthSelection(NoteAccepted(s1))
            [] sc.gameState = "STRENGTH_SELECTION" ->
                 NoteShot(s1, lockStrengthAndFire(NoteAccepted(s1)))
            [] sc.gameState = "FIRING" -> [s1 EXCEPT !.inputBuffer = TRUE]
            [] OTHER -> s1

\* updateOrbitingDot(delta)
updateOrbitingDot(sc, delta) ==
  LET a == sc.orbitAngle + ((orbitSpeed * delta) \div 1000) * sc.orbitDirection
  IN IF a > 180 THEN [sc EXCEPT !.orbitAngle = 180, !.orbitDirection = -1]
     ELSE IF a < 0 THEN [sc EXCEPT !.orbitAngle = 0, !.orbitDirection = 1]
     ELSE [sc EXCEPT !.orbitAngle = a]

\* startProjectileFadeOut: the projectile is marked and its tween created
startProjectileFadeOut(p) == [p EXCEPT !.fading = TRUE, !.elapsed = 0]

\* handleProjectileBounce on a projectile
handleProjectileBounce(p) ==
  LET q == [p EXCEPT !.bounceCount = @ + 1,
                     !.speed = (@ * velocityReductionFactor) \div 100]
  IN IF q.bounceCount >= maxBounces /\ ~q.fading
     THEN startProjectileFadeOut(q)
     ELSE q

\* velocity decay that leaves the velocity as it is
Drag_None(speed) == speed

\* velocity decay of one frame: both components times dragFactor
Drag(speed) == (speed * dragFactor) \div 100

\* the loop of updateProjectiles over the array getChildren() returns, which
\* is the group's own array: destroy() removes the projectile from it while
\* the loop runs.  i counts from 1.
RECURSIVE UpdateFrom(_, _)
UpdateFrom(ps, i) ==
  IF i > Len(ps) THEN ps
  ELSE LET p == [ps[i] EXCEPT !.speed = Drag(@)]
           q == IF p.speed < stopSpeed /\ ~p.fading
                THEN startProjectileFadeOut(p) ELSE p
       IN IF q.off
          THEN UpdateFrom(RemoveAt(ps, i), i + 1)
          ELSE UpdateFrom([ps EXCEPT ![i] = q], i + 1)

\* updateProjectiles(delta)
updateProjectiles(sc) == [sc EXCEPT !.projectiles = UpdateFrom(@, 1)]

\* the tween manager's update: the fade-out tweens advance by delta; a tween
\* that has run for its duration completes: onComplete destroys the
\* projectile and sets the state to IDLE when no projectile is left.
\* A tween is kept with its projectile.
updateTweens(sc, delta) ==
  LET advanced == [i \in DOMAIN sc.projectiles |->
                     IF sc.projectiles[i].fading
                     THEN [sc.projectiles[i] EXCEPT !.elapsed = @ + delta]
                     ELSE sc.projectiles[i]]
      Complete(p) == p.fading /\ p.elapsed >= fadeDuration
      remaining == SelectSeq(advanced, LAMBDA p : ~Complete(p))
  IN [sc EXCEPT !.projectiles = remaining,
                !.gameState = IF Len(remaining) < Len(advanced) /\ remaining = <<>>
                              THEN "IDLE" ELSE @,
                !.faded = @ + Len(advanced) - Len(remaining)]

\* handleWin: the reset is scheduled with delayedCall
handleWin(sc) ==
  [sc EXCEPT !.gameState = "WIN",
             !.visible = (@ \ UIParts) \cup {"winText"},
             !.winTimers = Append(@, 0)]

\* the callback of handleWin's delayedCall
WinCallback(sc) ==
  [resetSystem([sc EXCEPT !.obstacle = createObstacle])
     EXCEPT !.visible = @ \ {"winText"}]

\* the clock's update: the delayed calls advance by delta and those that are
\* due run
RECURSIVE RunDue(_, _)
RunDue(sc, n) == IF n = 0 THEN sc ELSE RunDue(WinCallback(sc), n - 1)

updateClock(sc, delta) ==
  LET advanced == [i \in DOMAIN sc.winTimers |-> sc.winTimers[i] + delta]
      due == SelectSeq(advanced, LAMBDA e : e >= winDelay)
      pending == SelectSeq(advanced, LAMBDA e : e < winDelay)
  IN RunDue([sc EXCEPT !.winTimers = pending], Len(due))

\* validateGameState
validateGameState(sc) ==
  IF /\ sc.gameState = "DIRECTION_SELECTION"
     /\ sc.now - sc.lastSpacebarPressTime > directionTimeout
  THEN resetSystem(sc)
  ELSE IF sc.gameState = "FIRING" /\ sc.projectiles = <<>>
  THEN resetSystem(sc)
  ELSE IF sc.gameState = "IDLE"
  THEN [sc EXCEPT !.visible = @ \ UIParts]
  ELSE sc

\* update(time, delta), where time = this.time.now = sc.now; pulse is the
\* strength that updateStrengthIndicator computes from the pulse phase
update(sc, delta, pulse) ==
  LET Orbit(s) == IF s.gameState = "DIRECTION_SELECTION"
                  THEN updateOrbitingDot(s, delta) ELSE s
      Pulse(s) == [s EXCEPT !.currentStrength = pulse]
      FailSafe(s) == IF s.now - s.strengthSelectionStartTime > strengthTimeout
                     THEN lockStrengthAndFire(s) ELSE s
      Strength(s) == IF s.gameState = "STRENGTH_SELECTION"
                     THEN Then(Pulse(s), FailSafe) ELSE s
      Win(s) == IF isCompleted(s.obstacle) /\ s.gameState # "WIN"
                THEN handleWin(s) ELSE s
      Buffer(s) == IF /\ s.inputBuffer
                      /\ CooldownOver(s)
                      /\ s.gameState \in InputStates
                   THEN handleSpacebarPress(s) ELSE s
  IN Then(Then(Then(Then(Then(Then(sc, Orbit), Strength), Win),
                    updateProjectiles), Buffer), validateGameState)

\* resetGame
resetGame(sc) ==
  LET s1 == resetSystem([sc EXCEPT !.projectiles = <<>>])
  IN IF s1.obstacle.blocks = 0
     THEN [s1 EXCEPT !.obstacle = createObstacle]
     ELSE s1

\* a handler starts: the history of the handler that ran last is dropped
Begin(sc, name) == [sc EXCEPT !.op = name, !.accepted = 0, !.resets = 0]

\* keydown-SPACE
PressSpace ==
  /\ LET after == handleSpacebarPress(Begin(scene, "press"))
     IN /\ after.shots <= MaxShots
        /\ scene' = after
  /\ UNCHANGED <<aimVars, aimHist, otherScenes>>

\* a frame: the clock advances by delta, the delayed calls and the tweens
\* are updated and update runs
Frame(delta, pulse) ==
  /\ scene.now + delta <= MaxSceneTime
  /\ LET Clock(s) == updateClock([s EXCEPT !.now = @ + delta], delta)
         Tweens(s) == updateTweens(s, delta)
         Scene(s) == update(s, delta, pulse)
         Bounded(s) == IF s.shots <= MaxShots THEN <<s>> ELSE <<>>
         after == Then(Then(Then(Then(Begin(scene, "frame"), Clock), Tweens), Scene),
                       Bounded)
     IN /\ after # <<>>
        /\ scene' = after[1]
  /\ UNCHANGED <<aimVars, aimHist, otherScenes>>

\* the collider of the projectiles and the world boundaries calls
\* handleProjectileBounce
WorldBoundsCollide(i) ==
  /\ i \in DOMAIN scene.projectiles
  /\ scene.projectiles[i].bounceCount < MaxCollisions
  /\ scene' = [Begin(scene, "bounce") EXCEPT !.projectiles[i] = handleProjectileBounce(@)]
  /\ UNCHANGED <<aimVars, aimHist, otherScenes>>

\* the collider of the projectiles and the blocks calls
\* handleProjectileBlockCollision
BlockCollide(i) ==
  /\ i \in DOMAIN scene.projectiles
  /\ scene.obstacle.blocks > 0
  /\ scene' = [Begin(scene, "block") EXCEPT !.obstacle = destroyBlock(@)]
  /\ UNCHANGED <<aimVars, aimHist, otherScenes>>

\* physics moves a projectile more than 50 px off the screen
LeaveScreen(i) ==
  /\ i \in DOMAIN scene.projectiles
  /\ ~scene.projectiles[i].off
  /\ scene' = [Begin(scene, "leave") EXCEPT !.projectiles[i].off = TRUE]
  /\ UNCHANGED <<aimVars, aimHist, otherScenes>>

\* the developer menu's Reset button, or handleVersionChange
ResetGame ==
  /\ scene' = resetGame(Begin(scene, "resetGame"))
  /\ UNCHANGED <<aimVars, aimHist, otherScenes>>

\* frames of a scene at rest (IDLE, empty input buffer, obstacle not
\* completed, no delayed call): update reads the clock only in the tests of
\* the cooldown and of the two timeouts, none of which is reached at rest, so
\* the clock is left out of these frames
AtRest(sc) ==
  /\ sc.gameState = "IDLE"
  /\ ~sc.inputBuffer
  /\ ~isCompleted(sc.obstacle)
  /\ sc.winTimers = <<>>

ProjectileFrame(delta) ==
  /\ AtRest(scene)
  /\ LET Clock(s) == updateClock(s, delta)
         Tweens(s) == updateTweens(s, delta)
         Scene(s) == update(s, delta, scene.currentStrength)
     IN scene' = Then(Then(Then(Begin(scene, "frame"), Clock), Tweens), Scene)
  /\ UNCHANGED <<aimVars, aimHist, otherScenes>>

\* a whole firing sequence on a scene at rest: the direction is locked, the
\* strength is chosen and the third press fires; resetSystem leaves no other
\* trace of the sequence
Shoot(strength) ==
  /\ AtRest(scene)
  /\ scene.shots < MaxProjectiles
  /\ scene' = lockStrengthAndFire(
                [lockDirectionAndStartStrengthSelection(
                   activateDirectionSelection(Begin(scene, "shoot")))
                 EXCEPT !.currentStrength = strength])
  /\ UNCHANGED <<aimVars, aimHist, otherScenes>>

\* the delta of a frame, in ms
FrameSteps == {125, 250}

\* the strengths, in hundredths, that the pulse of the strength indicator
\* shows at a frame
StrengthLevels == {0, 2}

BounceInit ==
  scene = [gameState |-> "IDLE",
           lockedDirection |-> <<>>,
           orbitAngle |-> 0,
           orbitDirection |-> 1,
           currentStrength |-> 0,
           lastSpacebarPressTime |-> 0,
           strengthSelectionStartTime |-> 0,
           inputBuffer |-> FALSE,
           now |-> 0,
           visible |-> {},
           projectiles |-> <<>>,
           obstacle |-> createObstacle,
           winTimers |-> <<>>,
           op |-> "create",
           shots |-> 0,
           accepted |-> 0,
           resets |-> 0,
           lastAccepted |-> <<>>,
           gap |-> <<>>,
           presses |-> 0,
           strengthAtSecond |-> <<>>,
           angleAtThird |-> <<>>,
           shot |-> <<>>,
           faded |-> 0]

SceneInit == AimInit /\ BounceInit

(***************************************************************************)
(* class MemoryOptimizer with its ObjectPools                              *)
(***************************************************************************)
notPools == <<rmVars, lruVars, lruHist, ehVars, ehHist, vmVars, sceneVars>>

\* the names of the default pools and a name for a pool of the caller
PoolNames == {"grassBlade", "vector2", "renderBatch", "custom"}

\* values of createObjectPool's initialSize
InitialSizes == {0, DefaultInitialSize, PoolMaxSize, PoolMaxSize + 1}

\* new ObjectPool(factory, initialSize): the loop pushes initialSize objects
ObjectPool(initialSize) ==
  [pool |-> initialSize, created |-> initialSize, reused |-> 0]

\* ObjectPool.get
PoolGet(p) ==
  IF p.pool > 0
  THEN [p EXCEPT !.pool = @ - 1, !.reused = @ + 1]
  ELSE [p EXCEPT !.created = @ + 1]

\* the test of ObjectPool.return
HasRoom(p) == p.pool < PoolMaxSize

\* ObjectPool.return
PoolReturn(p) == IF HasRoom(p) THEN [p EXCEPT !.pool = @ + 1] ELSE p

\* ObjectPool.optimize
PoolOptimize(p) == [p EXCEPT !.pool = @ \div 2]

\* ObjectPool.clear
PoolClear(p) == [pool |-> 0, created |-> 0, reused |-> 0]

\* MemoryOptimizer.createObjectPool(name, factory, initialSize)
CreateObjectPool(name, initialSize) ==
  /\ poolCalls < MaxPoolCalls
  /\ poolCalls' = poolCalls + 1
  /\ objectPools' = [n \in DOMAIN objectPools \cup {name} |->
                       IF n = name THEN ObjectPool(initialSize) ELSE objectPools[n]]
  /\ UNCHANGED notPools

\* MemoryOptimizer.getObject(poolName)
GetObject(poolName) ==
  /\ poolCalls < MaxPoolCalls
  /\ poolCalls' = poolCalls + 1
  /\ objectPools' = IF poolName \in DOMAIN objectPools
                    THEN [objectPools EXCEPT ![poolName] = PoolGet(@)]
                    ELSE objectPools
  /\ UNCHANGED notPools

\* MemoryOptimizer.returnObject(poolName, obj)
ReturnObject(poolName) ==
  /\ poolCalls < MaxPoolCalls
  /\ poolCalls' = poolCalls + 1
  /\ objectPools' = IF poolName \in DOMAIN objectPools
                    THEN [objectPools EXCEPT ![poolName] = PoolReturn(@)]
                    ELSE objectPools
  /\ UNCHANGED notPools

\* MemoryOptimizer.optimizeObjectPools
OptimizeObjectPools ==
  /\ poolCalls < MaxPoolCalls
  /\ poolCalls' = poolCalls + 1
  /\ objectPools' = [n \in DOMAIN objectPools |-> PoolOptimize(objectPools[n])]
  /\ UNCHANGED notPools

\* MemoryOptimizer.reset
PoolReset ==
  /\ poolCalls < MaxPoolCalls
  /\ poolCalls' = poolCalls + 1
  /\ objectPools' = [n \in DOMAIN objectPools |-> PoolClear(objectPools[n])]
  /\ UNCHANGED notPools

\* new MemoryOptimizer(): initializeDefaultPools
PoolInit ==
  /\ objectPools = [n \in {"grassBlade", "vector2", "renderBatch"} |->
                      CASE n = "grassBlade" -> ObjectPool(1000)
                        [] n = "vector2" -> ObjectPool(500)
                        [] n = "renderBatch" -> ObjectPool(50)]
  /\ poolCalls = 0

vars == <<rmVars, lruVars, lruHist, ehVars, ehHist, vmVars, sceneVars, poolVars>>

(***************************************************************************)
(* Specification of the resource loading                                   *)
(***************************************************************************)
LoadInit ==
  RMInit /\ LRUInitState(ResourceCacheSize) /\ LRUHistInit /\ EHInit /\ VMInit /\ SceneInit
  /\ PoolInit

LoadNext ==
  \/ \E list \in TaskLists : PreloadCriticalAssets(list)
  \/ EnterLoop
  \/ ExitLoop
  \/ Dequeue
  \/ InnerExit
  \/ \E ok \in BOOLEAN : StartLoad(ok)
  \/ Requeue
  \/ AwaitRace
  \/ SkipWait
  \/ \E i \in timers : FireTimer(i)
  \/ FinishLoad
  \/ ResumeQueue

LoadSpec == LoadInit /\ [][LoadNext]_vars

\* the event loop runs a queued job or a due timer whenever nothing else runs,
\* and running code proceeds
LoadFairSpec == LoadSpec /\ WF_vars(LoadNext)

(***************************************************************************)
(* Properties of the resource loading                                      *)
(***************************************************************************)

\* C1: while processLoadingQueue runs, the number of loads in flight is never
\* negative and never above maxConcurrentLoads = 3, whatever tasks are queued
\* and however the loaders complete or fail.
C1_ActiveLoadsWithinLimit ==
  activeLoads >= 0 /\ activeLoads <= maxConcurrentLoads

\* the limit is reached while a further task waits in the queue
C1_Witness_LimitReached ==
  activeLoads = maxConcurrentLoads /\ items # <<>> /\ pc = "racing"

PreloadResolved ==
  /\ pc = "done"
  /\ {grass_atlas_base, grass_shader, performance_monitor} \subseteq loadedResources
  /\ items = <<>>
  /\ activeLoads = 0

LoaderFailed == \E i \in DOMAIN promise : promise[i] = "rejected"

\* C2: preloadCriticalAssets of the three critical assets eventually
\* resolves unless a loader fails, and when it resolves the three resources
\* are loaded, the queue is empty and no load is in flight.
C2_PreloadEventuallyCompletes ==
  (assets = criticalAssets) ~> (PreloadResolved \/ LoaderFailed)

\* C3: a task's loader is started (its promise becomes pending) only when
\* every id of its dependencies is in loadedResources; so grass_shader never
\* starts before grass_atlas_base is recorded as loaded.
C3_LoaderStartsAfterDependencies ==
  [][\A i \in DOMAIN promise :
       (promise[i] = "none" /\ promise'[i] = "pending")
         => assets[i].dependencies \subseteq loadedResources]_vars

\* the shader of the critical assets has been started
C3_Witness_ShaderStarted ==
  /\ assets = criticalAssets
  /\ promise[2] = "pending"
  /\ grass_atlas_base \in loadedResources

\* C4: the task returned by dequeue has a priority greater than or equal to
\* that of every task still in the queue, so the task about to be started is
\* never below a task that has not been started yet.
C4_DequeueReturnsHighestPriority ==
  pc = "check" =>
    \A j \in Range(items) : assets[task].priority >= assets[j].priority

\* a task re-queued for its dependencies is dequeued again ahead of a task of
\* lower priority
C4_Witness_RequeuedDequeuedFirst ==
  /\ pc = "check"
  /\ assets[task].id = grass_shader
  /\ grass_atlas_base \in loadedResources
  /\ \E j \in Range(items) : assets[j].priority < assets[task].priority

(***************************************************************************)
(* Specification of the LRUCache: any sequence of get, set, delete, clear  *)
(***************************************************************************)
ThisCache == [cache |-> cache, accessOrder |-> accessOrder]

Get(key) ==
  /\ clock < MaxUses
  /\ LET c == LRUget(ThisCache, key)
     IN /\ cache' = c.cache
        /\ accessOrder' = c.accessOrder
  /\ IF key \in DOMAIN cache
     THEN /\ clock' = clock + 1
          /\ lastUsed' = [lastUsed EXCEPT ![key] = clock + 1]
     ELSE UNCHANGED <<clock, lastUsed>>
  /\ lastOp' = [op |-> "get", key |-> key, value |-> "a",
                 had |-> key \in DOMAIN cache, size |-> Cardinality(DOMAIN cache)]
  /\ UNCHANGED <<maxSize, rmVars, ehVars, ehHist, vmVars, sceneVars, poolVars>>

Set(key, value) ==
  /\ clock < MaxUses
  /\ LET c == LRUset(ThisCache, maxSize, key, value)
     IN /\ cache' = c.cache
        /\ accessOrder' = c.accessOrder
        /\ lastUsed' = [k \in Keys |-> IF k = key THEN clock + 1
                                       ELSE IF k \in DOMAIN c.cache THEN lastUsed[k]
                                       ELSE 0]
  /\ clock' = clock + 1
  /\ lastOp' = [op |-> "set", key |-> key, value |-> value,
                 had |-> key \in DOMAIN cache, size |-> Cardinality(DOMAIN cache)]
  /\ UNCHANGED <<maxSize, rmVars, ehVars, ehHist, vmVars, sceneVars, poolVars>>

Delete(key) ==
  /\ LET c == LRUdelete(ThisCache, key)
     IN /\ cache' = c.cache
        /\ accessOrder' = c.accessOrder
  /\ lastUsed' = [lastUsed EXCEPT ![key] = 0]
  /\ lastOp' = [op |-> "delete", key |-> key, value |-> "a",
                 had |-> key \in DOMAIN cache, size |-> Cardinality(DOMAIN cache)]
  /\ UNCHANGED <<clock, maxSize, rmVars, ehVars, ehHist, vmVars, sceneVars, poolVars>>

Clear ==
  /\ LET c == LRUclear(ThisCache)
     IN /\ cache' = c.cache
        /\ accessOrder' = c.accessOrder
  /\ lastUsed' = [k \in Keys |-> 0]
  /\ lastOp' = [op |-> "clear", key |-> 0, value |-> "a",
                 had |-> 0 \in DOMAIN cache, size |-> Cardinality(DOMAIN cache)]
  /\ UNCHANGED <<clock, maxSize, rmVars, ehVars, ehHist, vmVars, sceneVars, poolVars>>

LRUSpecInit ==
  /\ RMInit
  /\ \E max \in 1..MaxCacheSize : LRUInitState(max)
  /\ LRUHistInit
  /\ EHInit
  /\ VMInit
  /\ SceneInit
  /\ PoolInit

LRUNext ==
  \/ \E key \in Keys : Get(key)
  \/ \E key \in Keys, value \in Values : Set(key, value)
  \/ \E key \in Keys : Delete(key)
  \/ Clear

LRUSpec == LRUSpecInit /\ [][LRUNext]_vars

\* C5: after any sequence of get, set, delete and clear on a cache with
\* maxSize >= 1, the number of cached entries never exceeds maxSize.
C5_SizeWithinMaxSize ==
  Cardinality(DOMAIN cache) <= maxSize

\* a set of a new key has just evicted an entry of a full cache
C5_Witness_FullAfterEviction ==
  /\ lastOp.op = "set"
  /\ ~lastOp.had
  /\ lastOp.size = maxSize
  /\ Cardinality(DOMAIN cache) = maxSize

\* the key of the cache whose most recent successful get or set is the oldest
OldestKey ==
  CHOOSE k \in DOMAIN cache : \A j \in DOMAIN cache : lastUsed[k] <= lastUsed[j]

OthersKeepValue(key) ==
  \A k \in DOMAIN cache' \ {key} : k \in DOMAIN cache /\ cache'[k] = cache[k]

\* C6: the cache behaves like a reference LRU cache.  A set of a new key into
\* a full cache removes exactly the key used least recently; a get hit or a
\* set of an existing key removes nothing and makes the key the most recently
\* used one (accessOrder always lists the cached keys from least to most
\* recently used); every other key keeps its value.
C6_ReferenceLRU ==
  /\ [](/\ Range(accessOrder) = DOMAIN cache
        /\ Len(accessOrder) = Cardinality(DOMAIN cache)
        /\ \A i, j \in DOMAIN accessOrder :
             i < j => lastUsed[accessOrder[i]] < lastUsed[accessOrder[j]])
  /\ [][/\ (lastOp'.op = "set" /\ lastOp'.key \notin DOMAIN cache
            /\ Cardinality(DOMAIN cache) >= maxSize)
           => /\ DOMAIN cache' = (DOMAIN cache \ {OldestKey}) \cup {lastOp'.key}
              /\ cache'[lastOp'.key] = lastOp'.value
              /\ OthersKeepValue(lastOp'.key)
        /\ (lastOp'.op = "set" /\ lastOp'.key \notin DOMAIN cache
            /\ Cardinality(DOMAIN cache) < maxSize)
           => /\ DOMAIN cache' = DOMAIN cache \cup {lastOp'.key}
              /\ cache'[lastOp'.key] = lastOp'.value
              /\ OthersKeepValue(lastOp'.key)
        /\ (lastOp'.op = "set" /\ lastOp'.key \in DOMAIN cache)
           => /\ DOMAIN cache' = DOMAIN cache
              /\ cache'[lastOp'.key] = lastOp'.value
              /\ OthersKeepValue(lastOp'.key)
              /\ accessOrder'[Len(accessOrder')] = lastOp'.key
        /\ (lastOp'.op = "get" /\ lastOp'.key \in DOMAIN cache)
           => /\ cache' = cache
              /\ accessOrder'[Len(accessOrder')] = lastOp'.key
        /\ (lastOp'.op = "get" /\ lastOp'.key \notin DOMAIN cache)
           => /\ cache' = cache
              /\ accessOrder' = accessOrder
       ]_vars

\* set(1), set(2), a use of key 1, set(3) on a cache of two entries: key 2 was
\* evicted although key 1 was inserted first
C6_Witness_EvictedLeastRecent ==
  /\ maxSize = 2
  /\ lastOp.op = "set" /\ lastOp.key = 3 /\ ~lastOp.had /\ lastOp.size = 2
  /\ DOMAIN cache = {1, 3}
  /\ clock = 4
  /\ lastUsed[1] = 3

(***************************************************************************)
(* Specification of the ErrorHandler                                       *)
(***************************************************************************)
ErrInit ==
  RMInit /\ LRUInitState(ResourceCacheSize) /\ LRUHistInit /\ EHInit /\ VMInit /\ SceneInit
  /\ PoolInit

ErrNext ==
  \/ \E severity \in Severities, component \in Components, fallbackKey \in FallbackKeys :
       HandleError(severity, component, fallbackKey)
  \/ \E id \in DOMAIN inflight : FallbackSucceeds(id)
  \/ \E id \in DOMAIN inflight : FallbackFails(id)
  \/ \E id \in DOMAIN inflight : FallbackRejected(id)
  \/ \E d \in TickSteps : Tick(d)

ErrSpec == ErrInit /\ [][ErrNext]_vars

\* C7: once 5 fallbacks have failed for a component, a handleError call for
\* that component made within 60 000 ms of the last recorded failure returns
\* null without running the error callbacks or a fallback strategy, and the
\* error is appended to the error log.
C7_OpenBreakerSkipsRecovery ==
  [][(calls' = calls + 1
      /\ failures[lastCall'.component] >= 5
      /\ now - circuitBreakers[lastCall'.component].lastFailure <= 60000)
     => /\ lastCall'.returned = "null"
        /\ ~lastCall'.callbacks
        /\ ~lastCall'.fallback
        /\ errorLog' = errorLog + 1]_vars

\* a call arrives exactly 60 000 ms after the fifth failure and is skipped
C7_Witness_SkippedAtTimeout ==
  /\ failures[lastCall.component] >= 5
  /\ circuitBreakers[lastCall.component].state = "open"
  /\ now - circuitBreakers[lastCall.component].lastFailure = 60000
  /\ lastCall.returned = "null"
  /\ ~lastCall.callbacks
  /\ errorLog > 5

\* C8: for a fallback key and context the strategy is executed at most
\* maxRetryAttempts = 3 times without an intervening success; after three
\* consecutive failures further calls fail without running the strategy.
C8_AtMostThreeExecutions ==
  \A k \in RegisteredKeys : executions[k] <= 3

\* C15: once a component's breaker has left the open state (half-open after
\* the 60 000 ms timeout), a handleError call for that component whose
\* fallback strategy succeeds returns the breaker to 'closed' and resets its
\* failureCount to 0.
C15_SuccessClosesBreaker ==
  [][\A id \in DOMAIN inflight :
       (/\ inflight[id].phase = "executing"
        /\ inflight' = RemoveAt(inflight, id)
        /\ outcome' = "result"
        /\ circuitBreakers[inflight[id].component].state = "half-open")
       => /\ circuitBreakers'[inflight[id].component].state = "closed"
          /\ circuitBreakers'[inflight[id].component].failureCount = 0]_vars

(***************************************************************************)
(* Specification of the ErrorHandler with registered error callbacks: one  *)
(* component, no clock                                                     *)
(***************************************************************************)
ErrCbNext ==
  \/ \E severity \in Severities, throws \in BOOLEAN : OnError(severity, throws)
  \/ \E severity \in Severities, fallbackKey \in FallbackKeys :
       HandleError(severity, "scene_preload", fallbackKey)
  \/ \E id \in DOMAIN inflight : FallbackSucceeds(id)
  \/ \E id \in DOMAIN inflight : FallbackFails(id)
  \/ \E id \in DOMAIN inflight : FallbackRejected(id)

ErrCbSpec == ErrInit /\ [][ErrCbNext]_vars

\* C16: handleError never rejects: it resolves to the fallback strategy's
\* result when a fallback key is given and the strategy succeeds, and to null
\* in every other case (no fallback key, unknown key, failing strategy, open
\* breaker); an exception thrown by a registered error callback does not stop
\* the remaining callbacks or the fallback.
C16_HandleErrorNeverRejects ==
  [][/\ outcome' # "rejected"
     /\ calls' = calls + 1 =>
          /\ lastCall'.returned # "rejected"
          /\ lastCall'.callbacks => lastCall'.ran = lastCall'.registered
          /\ (lastCall'.callbacks /\ lastCall'.key # "none")
               => lastCall'.returned = "pending"
          /\ (~lastCall'.callbacks \/ lastCall'.key = "none")
               => (lastCall'.returned = "null" /\ outcome' = "null")
     /\ \A id \in DOMAIN inflight :
          inflight' = RemoveAt(inflight, id) =>
            outcome' = IF /\ inflight[id].phase = "executing"
                          /\ failures' = failures
                       THEN "result" ELSE "null"]_vars

\* a HIGH error is handled while two callbacks are registered for HIGH, the
\* first of which throws: both were invoked and the fallback resolved the call
C16_Witness_ThrowingCallback ==
  /\ Len(errorCallbacks["HIGH"]) = 2
  /\ errorCallbacks["HIGH"][1]
  /\ lastCall.registered = 2
  /\ lastCall.ran = 2
  /\ lastCall.key \in RegisteredKeys
  /\ inflight = <<>>
  /\ outcome = "result"

(***************************************************************************)
(* Specification of the VersionManager                                     *)
(***************************************************************************)
VMNext ==
  \/ \E id \in VersionIds, isActive \in BOOLEAN : RegisterVersion(id, isActive)
  \/ SceneCreate
  \/ RegisterV03Version
  \/ RegisterV02Version
  \/ \E id \in VersionIds : AddVersion(id)
  \/ \E id \in VersionIds : SwitchVersion(id)

VMSpecInit ==
  RMInit /\ LRUInitState(ResourceCacheSize) /\ LRUHistInit /\ EHInit /\ VMInit /\ SceneInit
  /\ PoolInit

VMSpec == VMSpecInit /\ [][VMNext]_vars

\* C9: switchVersion(id) returns true and makes id the version returned by
\* getCurrentVersion exactly when id is registered; otherwise it returns false
\* and leaves the current version and every isActive flag unchanged.
C9_SwitchVersionResult ==
  [][vmOp'.op = "switchVersion"
     => IF vmOp'.id \in DOMAIN versions
        THEN /\ vmOp'.result = TRUE
             /\ getCurrentVersion(versions', currentVersion').id = vmOp'.id
        ELSE /\ vmOp'.result = FALSE
             /\ currentVersion' = currentVersion
             /\ versions' = versions]_vars

\* one switch has succeeded and a later one to an unregistered id was refused
C9_Witness_SwitchRefused ==
  /\ vmOp.op = "switchVersion"
  /\ vmOp.result = FALSE
  /\ vmOp.id \notin DOMAIN versions
  /\ currentVersion = "v0.1"

\* C10: exactly one registered version has isActive = true, it is the version
\* returned by getCurrentVersion, and that version is never undefined.
C10_ExactlyOneActive ==
  /\ getCurrentVersion(versions, currentVersion) # Undefined
  /\ {id \in DOMAIN versions : versions[id].isActive} = {currentVersion}

(***************************************************************************)
(* Specification of the aiming scene: any sequence of SPACE presses and    *)
(* releases and of frames                                                  *)
(***************************************************************************)
AimSpecInit ==
  RMInit /\ LRUInitState(ResourceCacheSize) /\ LRUHistInit /\ EHInit /\ VMInit /\ SceneInit
  /\ PoolInit

AimNext ==
  \/ KeyDown
  \/ KeyUp
  \/ \E delta \in AimFrameSteps, S \in SUBSET (DOMAIN aimProjectiles) : StepFrame(delta, S)
  \/ FireLockedProjectile
  \/ Update

AimSpec == AimSpecInit /\ [][AimNext]_vars

\* C12: firing is rate limited in the aiming scene: over any sequence of
\* frames, SPACE key states and timer callbacks, two consecutive
\* fireProjectile calls are more than fireRate = 200 ms of game time apart.
C12_ShotsMoreThanFireRateApart ==
  \A i \in 1..(Len(shotTimes) - 1) : shotTimes[i + 1] - shotTimes[i] > 200

\* C13: at the end of every update call of the aiming scene no projectile
\* that remains in the projectile group lies more than 20 px outside the
\* camera bounds, however many projectiles are off screen in the same frame.
C13_NoOffScreenProjectileAfterUpdate ==
  framePhase = "input" => \A i \in DOMAIN aimProjectiles : ~aimProjectiles[i].off

\* C20: in the aiming scene SPACE moves IDLE to AIMING and AIMING to LOCKED
\* and is ignored in LOCKED and FIRING; a lock is followed, 500 ms later, by
\* exactly one projectile fired at the angle currentRotation had at the lock
\* (within [90, 270]), after which the state is IDLE and the aiming UI is
\* hidden.
C20_AimingStateMachine ==
  [][/\ (fireKeyDown' /\ ~fireKeyDown) =>
          aimingState' = CASE aimingState = "IDLE" -> "AIMING"
                           [] aimingState = "AIMING" -> "LOCKED"
                           [] OTHER -> aimingState
     /\ aimingState' = "LOCKED" => firingTimer' # <<>>
     /\ (framePhase' = "input" /\ firingTimer' # <<>>) => firingTimer'[1] < 500
     /\ (firingTimer # <<>> /\ firingTimer' = <<>>) =>
          /\ firingTimer[1] >= 500
          /\ rotationAtLock \in 90..270
          /\ aimProjectiles' = Append(aimProjectiles,
                                      [angle |-> rotationAtLock, off |-> FALSE])
          /\ aimingState' = "IDLE"
          /\ visibleParts' = {}]_vars

(***************************************************************************)
(* Specification of the bouncing scene: any sequence of SPACE presses,     *)
(* frames, collisions, projectiles leaving the screen and game resets      *)
(***************************************************************************)
BounceSpecInit ==
  RMInit /\ LRUInitState(ResourceCacheSize) /\ LRUHistInit /\ EHInit /\ VMInit /\ SceneInit
  /\ PoolInit

BounceNext ==
  \/ PressSpace
  \/ \E delta \in FrameSteps, pulse \in StrengthLevels : Frame(delta, pulse)
  \/ \E i \in DOMAIN scene.projectiles : WorldBoundsCollide(i)
  \/ \E i \in DOMAIN scene.projectiles : BlockCollide(i)
  \/ \E i \in DOMAIN scene.projectiles : LeaveScreen(i)
  \/ ResetGame

BounceSpec == BounceSpecInit /\ [][BounceNext]_vars

\* C11: the firing sequence of How to Play: from IDLE the first accepted
\* SPACE press starts the sequence, the second sets the strength of the shot
\* and the third sets the direction and fires: the projectile fired by a
\* press is fired by the third press of its sequence, with the strength the
\* scene had at the second press and in the direction of the orbiting dot at
\* the third.
C11_SecondPressStrengthThirdPressDirection ==
  scene.shot # <<>> =>
    /\ scene.presses = 3
    /\ scene.shot[1].strength = scene.strengthAtSecond[1]
    /\ scene.shot[1].direction = scene.angleAtThird

\* C14: after resetGame the game is in its initial state: gameState is IDLE,
\* the projectile group is empty, the aiming UI is hidden, the input buffer
\* is clear and the obstacle is the full grid of 12 blocks, none destroyed.
C14_ResetGameRestoresInitialState ==
  scene.op = "resetGame" =>
    /\ scene.gameState = "IDLE"
    /\ scene.projectiles = <<>>
    /\ scene.visible \cap UIParts = {}
    /\ ~scene.inputBuffer
    /\ scene.obstacle = [blocks |-> 12, destroyedBlocks |-> 0]

\* C17: any two accepted SPACE presses of the bouncing scene are at least
\* 250 ms apart.
C17_AcceptedPressesCooldownApart ==
  scene.gap # <<>> => scene.gap[1] >= 250

\* what every step of the bouncing scene does with a SPACE press that the
\* cooldown rejects; won tells whether a game that is won excuses the frame
\* from processing the press
BufferedPressHandled(won) ==
  LET due == scene.inputBuffer /\ scene'.now - scene.lastSpacebarPressTime >= 250
  IN /\ (scene' # scene /\ scene'.op = "press") =>
          /\ scene'.accepted <= 1
          /\ (/\ scene.now - scene.lastSpacebarPressTime < 250
              /\ scene.gameState \in {"IDLE", "DIRECTION_SELECTION", "STRENGTH_SELECTION"})
               => /\ scene'.inputBuffer
                  /\ scene'.accepted = 0
                  /\ scene'.gameState = scene.gameState
     /\ (scene' # scene /\ scene'.op = "frame") =>
          /\ scene'.accepted <= 1
          /\ ~scene.inputBuffer => scene'.accepted = 0
          /\ due => \/ scene'.accepted = 1 /\ ~scene'.inputBuffer
                    \/ scene'.accepted = 0 /\ scene'.resets > 0 /\ ~scene'.inputBuffer
                    \/ scene'.accepted = 0 /\ won /\ scene'.gameState = "WIN"
          /\ (scene.inputBuffer /\ ~due /\ scene'.resets = 0) =>
               scene'.inputBuffer /\ scene'.accepted = 0
     /\ scene'.inputBuffer =>
          \/ scene'.lastAccepted = <<>> /\ scene'.lastSpacebarPressTime = 0
          \/ scene'.lastAccepted = <<scene'.lastSpacebarPressTime>>

ProjNext ==
  \/ \E strength \in StrengthLevels : Shoot(strength)
  \/ \E i \in DOMAIN scene.projectiles : WorldBoundsCollide(i)
  \/ \E i \in DOMAIN scene.projectiles : LeaveScreen(i)
  \/ \E delta \in FrameSteps : ProjectileFrame(delta)

ProjFairSpec ==
  /\ BounceSpecInit
  /\ [][ProjNext]_vars
  /\ WF_vars(\E delta \in FrameSteps : ProjectileFrame(delta))

InGroup(id) == \E i \in DOMAIN scene.projectiles : scene.projectiles[i].id = id

\* C19: every projectile fired in the bouncing scene is eventually destroyed
\* while frames keep running; no projectile stays in the group forever.
C19_ProjectileEventuallyDestroyed ==
  \A id \in 1..MaxProjectiles : InGroup(id) ~> ~InGroup(id)

\* a projectile has been fired and destroyed at the end of its fade-out
C19_Witness_FadedOut ==
  /\ scene.shots >= 1
  /\ scene.faded >= 1
  /\ scene.projectiles = <<>>

(***************************************************************************)
(* Specification of the MemoryOptimizer's object pools: any sequence of    *)
(* createObjectPool, getObject, returnObject, optimizeObjectPools, reset   *)
(***************************************************************************)
PoolSpecInit ==
  RMInit /\ LRUInitState(ResourceCacheSize) /\ LRUHistInit /\ EHInit /\ VMInit /\ SceneInit
  /\ PoolInit

PoolNext ==
  \/ \E name \in PoolNames, initialSize \in InitialSizes : CreateObjectPool(name, initialSize)
  \/ \E poolName \in PoolNames : GetObject(poolName)
  \/ \E poolName \in PoolNames : ReturnObject(poolName)
  \/ OptimizeObjectPools
  \/ PoolReset

PoolSpec == PoolSpecInit /\ [][PoolNext]_vars

\* C21: an ObjectPool never holds more than its maxSize: for every pool
\* created through createObjectPool, with any initialSize, and after any
\* sequence of get, return, optimize and clear, the number of pooled objects
\* is at most 1000.
C21_PoolWithinMaxSize ==
  \A n \in DOMAIN objectPools : objectPools[n].pool <= 1000

====
